---- MODULE Spec2Model ----
(***************************************************************************)
(* QuakeSense: the risk-zone derivation of prediction_service.py, the      *)
(* ingestion loop of earthquake_service.py and the routes that call them.  *)
(*                                                                         *)
(* Units.  Degrees and magnitudes are kept in tenths (34.0 deg = 340,      *)
(* M6.5 = 65), depths in kilometres, instants and durations in half-days   *)
(* (12 h), so that timedelta.days is a floor division by 2.  Scores are    *)
(* exact rationals <<num, den>> with den > 0, in lowest terms.  A column   *)
(* that may hold None is a sequence: <<>> for None, <<v>> for the value v. *)
(***************************************************************************)
EXTENDS Integers, Sequences, FiniteSets, TLC

VARIABLES
    now,            \* datetime.utcnow(), in half-days
    earthquakes,    \* committed rows of table earthquakes (a set, usgs_id unique)
    risk_zones,     \* committed rows of table risk_zones, in insertion order
    pc,             \* position of the update request: idle, deleted, fetched, added, returned, raised
    sess_deleted,   \* the request's session issued DELETE FROM risk_zones in its open transaction
    sess_new,       \* RiskZone objects added to the request's session, not yet committed
    fetched,        \* local `earthquakes` of update_risk_zones (query result, a sequence)
    grid_cells,     \* local `grid_cells` of update_risk_zones: sequence of [key, events]
    zones_created,  \* local `zones_created` of update_risk_zones
    ret,            \* how the update_risk_zones call ended: NoCall, Returned(n), Raised(kind)
    zones_before,   \* committed risk_zones when the current call started (history)
    fetch_ret,      \* outcome of the last fetch_and_store_earthquakes call
    fetch_stored,   \* number of rows that call persisted (history)
    cell,           \* argument of the pure functions under SpecScore / SpecRegion / SpecCluster
    result          \* their result: <<>> before the call, <<v>> after

vars == <<now, earthquakes, risk_zones, pc, sess_deleted, sess_new, fetched,
          grid_cells, zones_created, ret, zones_before, fetch_ret, fetch_stored,
          cell, result>>

None == <<>>
Some(v) == <<v>>

\* how a call ended
NoCall == [status |-> "none"]
Returned(n) == [status |-> "returned", value |-> n]
Raised(kind) == [status |-> "raised", error |-> kind]

----------------------------------------------------------------------------
(* Exact rational arithmetic standing for Python's float arithmetic.       *)

Abs(x) == IF x < 0 THEN -x ELSE x

RECURSIVE GCD(_, _)
GCD(a, b) == IF b = 0 THEN a ELSE GCD(b, a % b)

Rat(n, d) == LET g == GCD(Abs(n), d) IN <<n \div g, d \div g>>

RAdd(a, b) ==
    LET g == GCD(a[2], b[2])
    IN  Rat(a[1] * (b[2] \div g) + b[1] * (a[2] \div g), (a[2] \div g) * b[2])

RMul(a, b) ==
    LET g1 == GCD(Abs(a[1]), b[2])
        g2 == GCD(Abs(b[1]), a[2])
    IN  Rat((a[1] \div g1) * (b[1] \div g2), (a[2] \div g2) * (b[2] \div g1))

RLe(a, b) == a[1] * b[2] <= b[1] * a[2]
RLt(a, b) == a[1] * b[2] < b[1] * a[2]
RMin(a, b) == IF RLt(b, a) THEN b ELSE a     \* Python min(a, b)
RMax(a, b) == IF RLt(a, b) THEN b ELSE a     \* Python max(a, b)

Zero == Rat(0, 1)
One == Rat(1, 1)

\* sum(s) and max(s), halving the sequence to keep the evaluation shallow
RECURSIVE SumSeq(_)
SumSeq(s) ==
    IF s = <<>> THEN 0
    ELSE IF Len(s) = 1 THEN s[1]
    ELSE LET h == Len(s) \div 2
         IN  SumSeq(SubSeq(s, 1, h)) + SumSeq(SubSeq(s, h + 1, Len(s)))

RECURSIVE MaxSeq(_)
MaxSeq(s) ==
    IF Len(s) = 1 THEN s[1]
    ELSE LET h == Len(s) \div 2
             a == MaxSeq(SubSeq(s, 1, h))
             b == MaxSeq(SubSeq(s, h + 1, Len(s)))
         IN  IF b > a THEN b ELSE a

\* timedelta.days of a duration given in half-days (floor, also when negative)
Days(halfdays) == halfdays \div 2

----------------------------------------------------------------------------
(* Program constants.                                                      *)

GRID_SIZE == 20          \* grid_size=2.0 degrees, in tenths
LOOKBACK_DAYS == 365     \* timedelta(days=365)
MIN_CELL_EVENTS == 3     \* len(cell_earthquakes) < 3
RECENT_DAYS == 90        \* (now - eq.timestamp).days <= 90
SHALLOW_KM == 70         \* (70 - avg_depth) / 70
BOOST_MAGNITUDE == 60    \* max_magnitude >= 6.0, in tenths

THRESHOLD == Rat(3, 10)  \* risk_level > 0.3

----------------------------------------------------------------------------
(* PredictionService._calculate_risk_level                                 *)

\* Python truthiness of eq.magnitude: None and 0.0 are both false
Truthy(opt) == opt # None /\ opt[1] # 0

\* frequency = len / 12.0 ; frequency_score = min(frequency / 10.0, 1.0)
frequency_score(eqs) == RMin(Rat(Len(eqs), 120), One)

\* magnitudes = [eq.magnitude for eq in earthquakes if eq.magnitude]
magnitudes(eqs) ==
    LET kept == SelectSeq(eqs, LAMBDA eq : Truthy(eq.magnitude))
    IN  [i \in 1..Len(kept) |-> kept[i].magnitude[1]]

magnitude_score(eqs) ==
    LET ms == magnitudes(eqs)
    IN  IF ms # <<>>
        THEN LET avg == Rat(SumSeq(ms), 10 * Len(ms))          \* in magnitude units
                 capped == RMin(RMul(RAdd(avg, Rat(-2, 1)), Rat(1, 6)), One)
                 floored == RMax(capped, Zero)
             IN  IF MaxSeq(ms) >= BOOST_MAGNITUDE THEN RMul(floored, Rat(3, 2)) ELSE floored
        ELSE Zero

\* recent_earthquakes = [eq for eq in earthquakes if (now - eq.timestamp).days <= 90]
recent_earthquakes(eqs, t) ==
    SelectSeq(eqs, LAMBDA eq : Days(t - eq.timestamp) <= RECENT_DAYS)

recency_score(eqs, t) == Rat(Len(recent_earthquakes(eqs, t)), Len(eqs))

\* depths = [eq.depth for eq in earthquakes if eq.depth is not None]
depths(eqs) ==
    LET kept == SelectSeq(eqs, LAMBDA eq : eq.depth # None)
    IN  [i \in 1..Len(kept) |-> kept[i].depth[1]]

depth_score(eqs) ==
    LET ds == depths(eqs)
    IN  IF ds # <<>>
        THEN IF SumSeq(ds) > 0      \* avg_depth > 0
             THEN RMax(Zero, Rat(SHALLOW_KM * Len(ds) - SumSeq(ds), SHALLOW_KM * Len(ds)))
             ELSE Rat(1, 2)
        ELSE Rat(1, 2)

weighted_sum(eqs, t) ==
    RAdd(RAdd(RMul(frequency_score(eqs), Rat(3, 10)),
              RMul(magnitude_score(eqs), Rat(4, 10))),
         RAdd(RMul(recency_score(eqs, t), Rat(2, 10)),
              RMul(depth_score(eqs), Rat(1, 10))))

\* (mutant) the weighted sum returned without min(risk_level, 1.0)
calculate_risk_level_uncapped(eqs, t) ==
    IF eqs = <<>> THEN Zero ELSE weighted_sum(eqs, t)

calculate_risk_level(eqs, t) ==
    IF eqs = <<>> THEN Zero ELSE RMin(weighted_sum(eqs, t), One)

----------------------------------------------------------------------------
(* PredictionService._get_representative_region                            *)

\* region_counts after the loop, as the dict's items() in insertion order:
\* a sequence of <<region, count>>, a key entering at its first occurrence
RECURSIVE region_counts(_)
region_counts(eqs) ==
    IF eqs = <<>> THEN <<>>
    ELSE LET before == region_counts(SubSeq(eqs, 1, Len(eqs) - 1))
             r == eqs[Len(eqs)].region
         IN  IF r = "" THEN before
             ELSE IF \E i \in 1..Len(before) : before[i][1] = r
                  THEN [i \in 1..Len(before) |->
                           IF before[i][1] = r THEN <<r, before[i][2] + 1>> ELSE before[i]]
                  ELSE Append(before, <<r, 1>>)

\* (mutant) the last item holding the maximal count
RECURSIVE max_by_count_last(_)
max_by_count_last(items) ==
    IF Len(items) = 1 THEN items[1]
    ELSE LET best == max_by_count_last(SubSeq(items, 1, Len(items) - 1))
             last == items[Len(items)]
         IN  IF last[2] >= best[2] THEN last ELSE best

\* Python max(items, key=count): the first item holding the maximal count
RECURSIVE max_by_count(_)
max_by_count(items) ==
    IF Len(items) = 1 THEN items[1]
    ELSE LET best == max_by_count(SubSeq(items, 1, Len(items) - 1))
             last == items[Len(items)]
         IN  IF last[2] > best[2] THEN last ELSE best

get_representative_region(eqs) ==
    LET counts == region_counts(eqs)
    IN  IF counts # <<>> THEN max_by_count(counts)[1] ELSE "Unknown Region"

----------------------------------------------------------------------------
(* Rows and bounds.                                                        *)

MaxTicks == 2        \* the clock advances at most this many times
MaxFeed == 2         \* features in one USGS response
MaxCell == 2         \* distinct events drawn for a scored cell (SpecScore)
MaxRegions == 4      \* events in a cell whose label is chosen (SpecRegion)
ClusterSize == 10    \* events of the clustered store (SpecCluster)

BigFactor == 40      \* SpecScore also scores each drawn cell repeated this often

TickStep == 2 * 200  \* half-days per clock step (200 days)

\* models.Earthquake
Row(id, lat, lon, mag, dep, reg, ts) ==
    [usgs_id |-> id, latitude |-> lat, longitude |-> lon, magnitude |-> mag,
     depth |-> dep, region |-> reg, timestamp |-> ts]

\* models.RiskZone
Zone(lat, lon, risk, reg, cnt, upd) ==
    [latitude |-> lat, longitude |-> lon, risk_level |-> risk, region_name |-> reg,
     earthquake_count |-> cnt, last_updated |-> upd]

----------------------------------------------------------------------------
(* PredictionService.update_risk_zones: the pure steps                     *)

\* Earthquake.query.filter(Earthquake.timestamp >= cutoff_date).all(),
\* rows in primary-key order (the table is kept in insertion order)
in_window(table, t) ==
    SelectSeq(table, LAMBDA eq : eq.timestamp >= t - 2 * LOOKBACK_DAYS)

\* (mutant) int(x / grid_size) * grid_size: truncation towards zero
floor_cell_truncating(x, g) == (IF x >= 0 THEN x \div g ELSE -((-x) \div g)) * g

\* math.floor(x / grid_size) * grid_size
floor_cell(x, g) == (x \div g) * g

cell_key(eq, g) == <<floor_cell(eq.latitude[1], g), floor_cell(eq.longitude[1], g)>>

\* eq.latitude / grid_size raises TypeError when a coordinate is None
malformed(eq) == eq.latitude = None \/ eq.longitude = None

\* grid_cells after the grouping loop, as the dict's items() in insertion order
RECURSIVE group_cells(_, _)
group_cells(eqs, g) ==
    IF eqs = <<>> THEN <<>>
    ELSE LET before == group_cells(SubSeq(eqs, 1, Len(eqs) - 1), g)
             eq == eqs[Len(eqs)]
             k == cell_key(eq, g)
         IN  IF \E i \in 1..Len(before) : before[i].key = k
             THEN [i \in 1..Len(before) |->
                      IF before[i].key = k
                      THEN [key |-> k, events |-> Append(before[i].events, eq)]
                      ELSE before[i]]
             ELSE Append(before, [key |-> k, events |-> <<eq>>])

\* the zone the scoring loop builds for one cell
zone_of(c, g, t) ==
    Zone(c.key[1] + g \div 2, c.key[2] + g \div 2, calculate_risk_level(c.events, t),
         get_representative_region(c.events), Len(c.events), t)

\* (mutant) the gate off by one: if len(cell_earthquakes) < 2
too_few_off_by_one(c) == Len(c.events) < MIN_CELL_EVENTS - 1

\* if len(cell_earthquakes) < 3: continue
too_few(c) == Len(c.events) < MIN_CELL_EVENTS

\* (mutant) the threshold taken inclusively: if risk_level >= 0.3
significant_inclusive(risk) == RLe(THRESHOLD, risk)

\* if risk_level > 0.3:
significant(risk) == RLt(THRESHOLD, risk)

\* the RiskZone objects the scoring loop adds to the session, in order
RECURSIVE zones_for(_, _, _)
zones_for(cells, g, t) ==
    IF cells = <<>> THEN <<>>
    ELSE LET before == zones_for(SubSeq(cells, 1, Len(cells) - 1), g, t)
             c == cells[Len(cells)]
         IN  IF too_few(c) THEN before
             ELSE IF significant(calculate_risk_level(c.events, t))
                  THEN Append(before, zone_of(c, g, t))
                  ELSE before

----------------------------------------------------------------------------
(* The stores and feeds the model draws from.                              *)

\* three strong, shallow, recent events in the cell (34.0, -118.0)
A1 == Row("a1", Some(340), Some(-1180), Some(65), Some(10), "A", 0)
A2 == Row("a2", Some(341), Some(-1179), Some(65), Some(10), "A", 0)
A3 == Row("a3", Some(340), Some(-1179), Some(65), Some(10), "B", 0)

\* four weak events in the cell (32.0, -120.0): together they score exactly 0.3
B1 == Row("b1", Some(339), Some(-1181), Some(26), Some(35), "", 0)
B2 == Row("b2", Some(339), Some(-1181), Some(26), Some(35), "", 0)
B3 == Row("b3", Some(339), Some(-1181), Some(26), Some(35), "P", 0)
B4 == Row("b4", Some(339), Some(-1181), Some(26), Some(35), "P", 0)

\* a row written without a latitude (the database outlives the process, and
\* create_all leaves an existing table as it is)
M1 == Row("m1", None, Some(-1180), Some(65), Some(10), "A", 0)

InitialStores == {<<>>, <<B1, B2, B3, B4>>, <<A1, A2, M1, B1, B2>>}

\* a GeoJSON feature: properties is None when the key is missing
Feature(id, props, coords) == [id |-> id, properties |-> props, coordinates |-> coords]

FeatureOf(r) ==
    Feature(r.usgs_id, Some([mag |-> r.magnitude, place |-> r.region, time |-> r.timestamp]),
            <<r.longitude[1], r.latitude[1], r.depth[1]>>)

Features ==
    {FeatureOf(A2), FeatureOf(A3),
     Feature("x1", None, <<-1180, 340, 10>>),                                     \* no 'properties'
     Feature("n1", Some([mag |-> None, place |-> "A", time |-> 0]), <<-1180, 340>>)}  \* "mag": null

RECURSIVE SeqsUpTo(_, _)
SeqsUpTo(S, n) ==
    IF n = 0 THEN {<<>>}
    ELSE LET shorter == SeqsUpTo(S, n - 1)
         IN  shorter \cup {Append(q, x) : q \in shorter, x \in S}

----------------------------------------------------------------------------
(* EarthquakeService.fetch_and_store_earthquakes                           *)

\* lines 54-65 and 73-81: the Earthquake built from a well-formed feature
row_of(f) ==
    LET c == f.coordinates
    IN  Row(f.id, Some(c[2]), Some(c[1]), f.properties[1].mag,
            Some(IF Len(c) > 2 THEN c[3] ELSE 0), f.properties[1].place,
            f.properties[1].time)

\* the INSERT of a row violates a NOT NULL column (models.py: nullable=False)
violates_schema(r) ==
    r.latitude = None \/ r.longitude = None \/ r.magnitude = None \/ r.depth = None

flush_fails(pending) == \E i \in 1..Len(pending) : violates_schema(pending[i])

\* Earthquake.query.filter_by(usgs_id=usgs_id).first(), after the autoflush
existing(id, table, pending) ==
    \/ \E i \in 1..Len(table) : table[i].usgs_id = id
    \/ \E i \in 1..Len(pending) : pending[i].usgs_id = id

\* one iteration of the loop over features; st = [pending, new_count]
process_feature(f, table, st) ==
    IF f.properties = None                 \* feature['properties'] raises KeyError
    THEN [pending |-> <<>>, new_count |-> st.new_count]       \* rollback; continue
    ELSE IF flush_fails(st.pending)        \* the query's autoflush raises IntegrityError
    THEN [pending |-> <<>>, new_count |-> st.new_count]       \* rollback; continue
    ELSE IF existing(f.id, table, st.pending)
    THEN st                                                   \* continue
    ELSE [pending |-> Append(st.pending, row_of(f)), new_count |-> st.new_count + 1]

RECURSIVE process_features(_, _, _)
process_features(fs, table, st) ==
    IF fs = <<>> THEN st
    ELSE process_features(Tail(fs), table, process_feature(Head(fs), table, st))

\* the whole call on the feed `features`, in a session of its own
fetch_and_store_earthquakes(features) ==
    LET st == process_features(features, earthquakes, [pending |-> <<>>, new_count |-> 0])
    IN  /\ IF st.new_count > 0 /\ flush_fails(st.pending)
           THEN /\ earthquakes' = earthquakes                 \* commit raises; rollback; raise
                /\ fetch_ret' = Raised("StoreFailure")
           ELSE /\ earthquakes' = (IF st.new_count > 0 THEN earthquakes \o st.pending
                                   ELSE earthquakes)
                /\ fetch_ret' = Returned(st.new_count)
        /\ fetch_stored' = Len(earthquakes') - Len(earthquakes)

\* requests.get fails or raise_for_status raises: nothing was read
fetch_request_fails ==
    /\ fetch_ret' = Raised("RequestException")
    /\ fetch_stored' = 0
    /\ UNCHANGED earthquakes

----------------------------------------------------------------------------
(* The update request: routes.api_update_predictions calling               *)
(* PredictionService.update_risk_zones(), statement by statement.          *)

\* what RiskZone.query.all() returns through the request's session
\* (mutant) the pending DELETE never takes effect
session_zones_without_delete == risk_zones \o sess_new

\* what the session holds: the table less a pending DELETE, plus the added rows
session_zones == (IF sess_deleted THEN <<>> ELSE risk_zones) \o sess_new

run_locals == <<fetched, grid_cells, zones_created>>
others == <<now, earthquakes, fetch_ret, fetch_stored, cell, result>>

\* (mutant) the handler re-raises without db.session.rollback()
on_exception_no_rollback(kind) ==
    /\ pc' = "raised"
    /\ ret' = Raised(kind)
    /\ UNCHANGED <<sess_deleted, sess_new>>

\* except Exception: db.session.rollback(); raise
on_exception(kind) ==
    /\ pc' = "raised"
    /\ ret' = Raised(kind)
    /\ sess_deleted' = FALSE
    /\ sess_new' = <<>>

\* line 27: RiskZone.query.delete()
urz_delete ==
    /\ pc = "idle"
    /\ zones_before' = risk_zones
    /\ \/ /\ pc' = "deleted"
          /\ sess_deleted' = TRUE
          /\ ret' = NoCall
          /\ UNCHANGED sess_new
       \/ on_exception("StoreFailure")
    /\ fetched' = <<>>
    /\ grid_cells' = <<>>
    /\ zones_created' = 0
    /\ UNCHANGED <<risk_zones, others>>

\* lines 30-37: the query, and the early return when it finds nothing
urz_query ==
    /\ pc = "deleted"
    /\ \/ /\ fetched' = in_window(earthquakes, now)
          /\ IF fetched' = <<>>
             THEN pc' = "returned" /\ ret' = Returned(0)
             ELSE pc' = "fetched" /\ UNCHANGED ret
          /\ UNCHANGED <<sess_deleted, sess_new>>
       \/ on_exception("StoreFailure") /\ UNCHANGED fetched
    /\ UNCHANGED <<risk_zones, zones_before, grid_cells, zones_created, others>>

\* lines 40-47: the grouping loop
urz_group ==
    /\ pc = "fetched"
    /\ IF \E i \in 1..Len(fetched) : malformed(fetched[i])
       THEN on_exception("ComputationFailure") /\ UNCHANGED grid_cells
       ELSE /\ grid_cells' = group_cells(fetched, GRID_SIZE)
            /\ pc' = "grouped"
            /\ UNCHANGED <<ret, sess_deleted, sess_new>>
    /\ UNCHANGED <<risk_zones, zones_before, fetched, zones_created, others>>

\* lines 49-77: the scoring loop
urz_score ==
    /\ pc = "grouped"
    /\ sess_new' = zones_for(grid_cells, GRID_SIZE, now)
    /\ zones_created' = Len(sess_new')
    /\ pc' = "added"
    /\ UNCHANGED <<risk_zones, zones_before, fetched, grid_cells, ret, sess_deleted, others>>

\* lines 79-81: db.session.commit(); return zones_created
urz_commit ==
    /\ pc = "added"
    /\ \/ /\ risk_zones' = session_zones
          /\ sess_deleted' = FALSE
          /\ sess_new' = <<>>
          /\ pc' = "returned"
          /\ ret' = Returned(zones_created)
       \/ on_exception("StoreFailure") /\ UNCHANGED risk_zones
    /\ UNCHANGED <<zones_before, run_locals, others>>

\* the route answers and the request ends: Flask-SQLAlchemy removes the
\* session, which rolls back whatever it still holds; the call's frame is gone
api_update_predictions_done ==
    /\ pc \in {"returned", "raised"}
    /\ pc' = "idle"
    /\ sess_deleted' = FALSE
    /\ sess_new' = <<>>
    /\ fetched' = <<>>
    /\ grid_cells' = <<>>
    /\ zones_created' = 0
    /\ ret' = NoCall
    /\ zones_before' = <<>>
    /\ UNCHANGED <<risk_zones, others>>

update_request ==
    \/ urz_delete
    \/ urz_query
    \/ urz_group
    \/ urz_score
    \/ urz_commit
    \/ api_update_predictions_done

----------------------------------------------------------------------------
(* The other writers.                                                      *)

request_vars == <<risk_zones, pc, sess_deleted, sess_new, run_locals, ret, zones_before>>

\* The writers of table earthquakes run in requests and threads of their own.
\* An update run reads the table once (line 31), so a commit of theirs between
\* that query and the run's end changes nothing the run does: it is taken
\* after the run.
between_query_and_end == pc \in {"fetched", "grouped", "added"}

\* app.fetch_earthquake_data / routes.api_fetch_data on a feed of at most n features
fetch_data(n) ==
    /\ ~between_query_and_end
    /\ \/ \E features \in SeqsUpTo(Features, n) : fetch_and_store_earthquakes(features)
       \/ fetch_request_fails
    /\ UNCHANGED <<request_vars, now, cell, result>>

\* routes.admin_delete_earthquake
admin_delete_earthquake ==
    /\ ~between_query_and_end
    /\ \E i \in 1..Len(earthquakes) :
          earthquakes' = SubSeq(earthquakes, 1, i - 1) \o SubSeq(earthquakes, i + 1, Len(earthquakes))
    /\ UNCHANGED <<request_vars, now, fetch_ret, fetch_stored, cell, result>>

\* time passes; a run is short against the clock's step, so every reading of
\* datetime.utcnow() within one request gives the same instant
tick ==
    /\ pc = "idle"
    /\ now < MaxTicks * TickStep
    /\ now' = now + TickStep
    /\ UNCHANGED <<request_vars, earthquakes, fetch_ret, fetch_stored, cell, result>>

Init ==
    /\ now = 0
    /\ earthquakes \in InitialStores
    /\ risk_zones = <<>>
    /\ pc = "idle"
    /\ sess_deleted = FALSE
    /\ sess_new = <<>>
    /\ fetched = <<>>
    /\ grid_cells = <<>>
    /\ zones_created = 0
    /\ ret = NoCall
    /\ zones_before = <<>>
    /\ fetch_ret = NoCall
    /\ fetch_stored = 0
    /\ cell = <<>>
    /\ result = None

\* the update request among the other writers; here a USGS response carries
\* at most one feature (SpecFetch draws the longer feeds)
Next ==
    \/ update_request
    \/ fetch_data(1)
    \/ admin_delete_earthquake
    \/ tick

Spec == Init /\ [][Next]_vars

\* ingestion alone, on feeds of up to MaxFeed features
NextFetch ==
    \/ fetch_data(MaxFeed)
    \/ admin_delete_earthquake

SpecFetch == Init /\ [][NextFetch]_vars

----------------------------------------------------------------------------
(* Properties of the update run.                                           *)

SeqToSet(q) == {q[i] : i \in 1..Len(q)}

running == pc \in {"deleted", "fetched", "grouped", "added"}

\* a zone of zs is centred on cell c of the default grid
ZoneAt(zs, c) ==
    \E z \in SeqToSet(zs) : /\ z.latitude = c.key[1] + GRID_SIZE \div 2
                            /\ z.longitude = c.key[2] + GRID_SIZE \div 2

ZonesAt(zs, c) ==
    {z \in SeqToSet(zs) : /\ z.latitude = c.key[1] + GRID_SIZE \div 2
                          /\ z.longitude = c.key[2] + GRID_SIZE \div 2}

\* C1 (as claimed): a call that found no earthquake of the last 365 days has
\* returned 0 and left the zone set as it was before the call, both as
\* committed and as seen through the session the run used.
C1_EmptyWindowNoMutation ==
    (pc = "returned" /\ fetched = <<>>) =>
        /\ ret = Returned(0)
        /\ risk_zones = zones_before
        /\ session_zones = zones_before

\* C2: a run is all-or-nothing.  While a run is under way, and after it has
\* failed, the committed zone set is the pre-run zone set; once it has failed
\* the delete is rolled back (the session shows the pre-run zones again) and
\* the caller got the failure, not a count.
C2_FailedRunAllOrNothing ==
    /\ (running \/ pc = "raised") => risk_zones = zones_before
    /\ pc = "raised" => /\ ret.status = "raised"
                        /\ session_zones = zones_before

\* a run failed at its commit, with zones to lose and new zones pending
C2_Witness ==
    /\ pc = "raised"
    /\ ret = Raised("StoreFailure")
    /\ zones_before # <<>>
    /\ zones_created > 0

\* C3 (as claimed): a run that met a malformed event ends with a success
\* count, and every cell of the well-formed events that passes both gates has
\* its zone committed.
C3_MalformedEventSkipped ==
    (pc \in {"returned", "raised"} /\ \E i \in 1..Len(fetched) : malformed(fetched[i])) =>
        LET good == SelectSeq(fetched, LAMBDA eq : ~malformed(eq))
            cells == group_cells(good, GRID_SIZE)
        IN  /\ ret.status = "returned"
            /\ \A c \in SeqToSet(cells) :
                  (Len(c.events) >= 3 /\ RLt(Rat(3, 10), calculate_risk_level(c.events, now)))
                      => ZoneAt(risk_zones, c)

\* C4: no zone comes from a cell of fewer than 3 events, a cell of 3 or more
\* events that scores above 0.3 gets its zone, and every zone, pending or
\* committed, counts at least 3 earthquakes: as many as its cell holds.
C4_MinimumSampleGate ==
    /\ \A z \in SeqToSet(risk_zones) \cup SeqToSet(sess_new) : z.earthquake_count >= 3
    /\ pc = "added" =>
          /\ \A c \in SeqToSet(grid_cells) :
                /\ Len(c.events) < 3 => ~ZoneAt(sess_new, c)
                /\ (Len(c.events) >= 3 /\ RLt(Rat(3, 10), calculate_risk_level(c.events, now)))
                      => ZoneAt(sess_new, c)
                /\ \A z \in ZonesAt(sess_new, c) : z.earthquake_count = Len(c.events)
          /\ \A z \in SeqToSet(sess_new) : \E c \in SeqToSet(grid_cells) : z \in ZonesAt(sess_new, c)

\* one run met a cell of exactly 2 events, which got no zone, and a cell of
\* exactly 3 events, which got one
C4_Witness ==
    /\ pc = "added"
    /\ \E c \in SeqToSet(grid_cells) : Len(c.events) = 2 /\ ~ZoneAt(sess_new, c)
    /\ \E c \in SeqToSet(grid_cells) : Len(c.events) = 3 /\ ZoneAt(sess_new, c)

\* C5: every zone, pending or committed, has risk_level > 0.3, and a cell of
\* 3 or more events whose score is <= 0.3 gets no zone.
C5_SignificanceGate ==
    /\ \A z \in SeqToSet(risk_zones) \cup SeqToSet(sess_new) : RLt(Rat(3, 10), z.risk_level)
    /\ pc = "added" =>
          \A c \in SeqToSet(grid_cells) :
              (Len(c.events) >= 3 /\ RLe(calculate_risk_level(c.events, now), Rat(3, 10)))
                  => ~ZoneAt(sess_new, c)

\* a cell of 4 events scored exactly 0.3 and got no zone
C5_Witness ==
    /\ pc = "added"
    /\ \E c \in SeqToSet(grid_cells) :
          /\ Len(c.events) >= 3
          /\ calculate_risk_level(c.events, now) = Rat(3, 10)
          /\ ~ZoneAt(sess_new, c)

\* C10 (as claimed): a fetch that returned normally returned the number of
\* rows it persisted.
C10_ReturnsNumberStored ==
    fetch_ret.status = "returned" => fetch_ret.value = fetch_stored

\* C12: after a run that found at least one event of the window and
\* returned, the stored zones are exactly those the run made: every one is
\* stamped with the run's time and stands at the centre
\* (lat_cell + g/2, lon_cell + g/2) of a cell the run scored above 0.3 on 3 or
\* more events, no cell has two, none is left from an earlier run, and the
\* returned count is the number of stored zones.
C12_ZonesAreThisRuns ==
    (pc = "returned" /\ fetched # <<>>) =>
        /\ ret = Returned(Len(risk_zones))
        /\ Cardinality(SeqToSet(risk_zones)) = Len(risk_zones)
        /\ \A z \in SeqToSet(risk_zones) :
              /\ z.last_updated = now
              /\ \E c \in SeqToSet(grid_cells) :
                    /\ z.latitude = floor_cell(c.events[1].latitude[1], GRID_SIZE) + GRID_SIZE \div 2
                    /\ z.longitude = floor_cell(c.events[1].longitude[1], GRID_SIZE) + GRID_SIZE \div 2
                    /\ z.earthquake_count = Len(c.events)
                    /\ Len(c.events) >= 3
                    /\ z.risk_level = calculate_risk_level(c.events, now)
                    /\ RLt(Rat(3, 10), z.risk_level)
        /\ \A c \in SeqToSet(grid_cells) :
              /\ Cardinality(ZonesAt(risk_zones, c)) <= 1
              /\ (Len(c.events) >= 3 /\ RLt(Rat(3, 10), calculate_risk_level(c.events, now)))
                    => ZonesAt(risk_zones, c) # {}
        /\ \A z \in SeqToSet(zones_before) :
              z.last_updated # now => z \notin SeqToSet(risk_zones)

\* a later run replaced the zone an earlier run had left
C12_Witness ==
    /\ pc = "returned"
    /\ fetched # <<>>
    /\ risk_zones # <<>>
    /\ \E z \in SeqToSet(zones_before) : z.last_updated # now /\ ZonesAt(risk_zones, [key |-> <<z.latitude - GRID_SIZE \div 2, z.longitude - GRID_SIZE \div 2>>]) # {}
    /\ ret = Returned(Len(risk_zones))

----------------------------------------------------------------------------
(* The scorer and the labeller on drawn cells.                             *)

InitPure ==
    /\ Init
    /\ earthquakes = <<>>

main_vars == <<now, earthquakes, request_vars, fetch_ret, fetch_stored>>

Magnitudes == {None, Some(-10), Some(0), Some(30), Some(60), Some(95)}
Depths == {None, Some(-5), Some(0), Some(100)}
Stamps == {-181, -182}        \* 90 days 12 h old, and 91 days old
Regions == {"", "A", "B", "C"}

Repeat(q, n) == [i \in 1..(n * Len(q)) |-> q[((i - 1) % Len(q)) + 1]]

\* one more event enters the cell
score_draw ==
    /\ result = None
    /\ Len(cell) < MaxCell
    /\ \E mag \in Magnitudes, dep \in Depths, ts \in Stamps :
          cell' = Append(cell, Row("e", Some(0), Some(0), mag, dep, "", ts))
    /\ UNCHANGED <<result, main_vars>>

\* the same events, BigFactor times over (a busy cell)
score_repeat ==
    /\ result = None
    /\ cell # <<>>
    /\ Len(cell) <= MaxCell
    /\ cell' = Repeat(cell, BigFactor)
    /\ UNCHANGED <<result, main_vars>>

\* risk_level = self._calculate_risk_level(cell_earthquakes)
score_call ==
    /\ result = None
    /\ cell # <<>>
    /\ result' = Some([risk |-> calculate_risk_level(cell, now),
                       magnitude |-> magnitude_score(cell),
                       recency |-> recency_score(cell, now)])
    /\ UNCHANGED <<cell, main_vars>>

NextScore == score_draw \/ score_repeat \/ score_call

SpecScore == InitPure /\ [][NextScore]_vars

\* one more event, with its region, enters the cell
region_draw ==
    /\ result = None
    /\ Len(cell) < MaxRegions
    /\ \E reg \in Regions :
          cell' = Append(cell, Row("e", Some(0), Some(0), Some(30), Some(10), reg, 0))
    /\ UNCHANGED <<result, main_vars>>

\* region_name = self._get_representative_region(cell_earthquakes)
region_call ==
    /\ result = None
    /\ cell # <<>>
    /\ result' = Some(get_representative_region(cell))
    /\ UNCHANGED <<cell, main_vars>>

NextRegion == region_draw \/ region_call

SpecRegion == InitPure /\ [][NextRegion]_vars

\* C6: the score of a non-empty cell is in [0, 1].
C6_ScoreInUnitInterval ==
    result # None => /\ RLe(Zero, result[1].risk)
                     /\ RLe(result[1].risk, One)

\* a busy cell of strong events: the weighted sum exceeds 1 and the score is 1
C6_Witness ==
    /\ result # None
    /\ RLt(One, weighted_sum(cell, now))
    /\ result[1].risk = One

\* the magnitude factor as C9 describes it: over every magnitude that is
\* present, 0.0 included
C9_present(eqs) ==
    LET kept == SelectSeq(eqs, LAMBDA eq : eq.magnitude # None)
    IN  [i \in 1..Len(kept) |-> kept[i].magnitude[1]]

C9_factor(eqs) ==
    LET ms == C9_present(eqs)
    IN  IF ms = <<>> THEN Zero
        ELSE LET lin == Rat(SumSeq(ms) - 20 * Len(ms), 60 * Len(ms))
                 clamped == IF RLt(lin, Zero) THEN Zero ELSE IF RLt(One, lin) THEN One ELSE lin
             IN  IF MaxSeq(ms) >= 60 THEN RMul(clamped, Rat(3, 2)) ELSE clamped

C9_others ==
    {[i \in 1..Len(q) |-> Row("o", Some(0), Some(0), q[i], None, "", 0)] :
        q \in SeqsUpTo(Magnitudes, 2) \ {<<>>}}

\* C9 (as claimed): the magnitude factor is clamp((mean - 2)/6, 0, 1) over the
\* present magnitudes, times 1.5 when their maximum is >= 6.0, and 0.0 when
\* none is present; of two cells with the same mean above 2, the one whose
\* maximum is >= 6.0 has the strictly higher factor.
C9_MagnitudeFactor ==
    result # None =>
        /\ result[1].magnitude = C9_factor(cell)
        /\ \A other \in C9_others :
              LET mc == C9_present(cell)
                  mo == C9_present(other)
              IN  (/\ mc # <<>> /\ mo # <<>>
                   /\ SumSeq(mc) * Len(mo) = SumSeq(mo) * Len(mc)
                   /\ SumSeq(mc) > 20 * Len(mc)
                   /\ MaxSeq(mc) >= 60 /\ MaxSeq(mo) < 60)
                  => RLt(magnitude_score(other), result[1].magnitude)

\* the events of the cell that are at most 90 days old, to the half day
C14_within_90_days ==
    {i \in 1..Len(cell) : now - cell[i].timestamp <= 2 * RECENT_DAYS}

\* C14 (as claimed): the recency factor is the fraction of the cell's events
\* with now - timestamp <= 90 days; an event 90 days and 12 hours old is not
\* among them.
C14_RecencyWithin90Days ==
    result # None =>
        result[1].recency = Rat(Cardinality(C14_within_90_days), Len(cell))

\* the counts of a region, and where it first occurs
C8_count(r) == Cardinality({i \in 1..Len(cell) : cell[i].region = r})
C8_first(r) == CHOOSE i \in 1..Len(cell) :
                  cell[i].region = r /\ \A j \in 1..(i - 1) : cell[j].region # r
C8_named == {cell[i].region : i \in 1..Len(cell)} \ {""}

\* C8: the label is the most frequent non-empty region, among several of the
\* highest count the one that occurs first, and "Unknown Region" when no
\* event has a region.
C8_RepresentativeRegion ==
    result # None =>
        IF C8_named = {} THEN result[1] = "Unknown Region"
        ELSE /\ result[1] \in C8_named
             /\ \A r \in C8_named :
                   /\ C8_count(r) <= C8_count(result[1])
                   /\ (C8_count(r) = C8_count(result[1]) /\ r # result[1])
                         => C8_first(result[1]) < C8_first(r)

\* two regions tie for the highest count and the label is the earlier one
C8_Witness ==
    /\ result # None
    /\ result[1] \in C8_named
    /\ \E r \in C8_named \ {result[1]} : C8_count(r) = C8_count(result[1])

----------------------------------------------------------------------------
(* The update run on a cluster around (34.0, -118.0).                      *)

\* the box 34.0 +- 0.1 by -118.0 +- 0.1: its corners, its centre, and the
\* two points of its centre lines that lie in cells of their own
ClusterPositions ==
    << <<339, -1181>>, <<339, -1180>>, <<339, -1179>>,
       <<340, -1181>>, <<340, -1180>>,
       <<341, -1181>>,                 <<341, -1179>> >>

PositionIndex(eq) ==
    CHOOSE i \in 1..Len(ClusterPositions) :
        ClusterPositions[i] = <<eq.latitude[1], eq.longitude[1]>>

\* the store receives the cluster's next event: M6.5, 10 days old.  The rows
\* differ in id and place only, so they are entered in the order of their places.
cluster_place ==
    /\ pc = "idle"
    /\ Len(earthquakes) < ClusterSize
    /\ \E i \in 1..Len(ClusterPositions) :
          /\ earthquakes # <<>> => i >= PositionIndex(earthquakes[Len(earthquakes)])
          /\ earthquakes' = Append(earthquakes,
                Row(ToString(Len(earthquakes) + 1), Some(ClusterPositions[i][1]),
                    Some(ClusterPositions[i][2]), Some(65), Some(10), "LA", -20))
    /\ UNCHANGED <<request_vars, now, fetch_ret, fetch_stored, cell, result>>

\* update_risk_zones() once the cluster is complete
cluster_update ==
    /\ Len(earthquakes) = ClusterSize
    /\ update_request

NextCluster == cluster_place \/ cluster_update

SpecCluster == InitPure /\ [][NextCluster]_vars

\* C7 (as claimed): a run on the cluster that returned left exactly one zone,
\* of earthquake_count 10 and risk_level > 0.3, and returned 1.
C7_ClusterOneZone ==
    (pc = "returned" /\ Len(fetched) = ClusterSize) =>
        /\ Len(risk_zones) = 1
        /\ risk_zones[1].earthquake_count = ClusterSize
        /\ RLt(Rat(3, 10), risk_zones[1].risk_level)
        /\ ret = Returned(1)

\* the events lie in the part of the box that is in grid cell (34, -118)
C7_in_one_cell ==
    \A i \in 1..Len(fetched) :
        /\ fetched[i].latitude[1] >= 340 /\ fetched[i].latitude[1] <= 341
        /\ fetched[i].longitude[1] >= -1180 /\ fetched[i].longitude[1] <= -1179

\* C7 (amended): when every event has latitude in [34.0, 34.1] and longitude
\* in [-118.0, -117.9] the run leaves exactly one zone, centred at
\* (35.0, -117.0), of earthquake_count 10 and risk_level > 0.3, and returns 1;
\* in every placement the run leaves one zone for each cell holding at least
\* 3 of the events, and returns their number.
C7_ClusterOneZonePerCell ==
    (pc = "returned" /\ Len(fetched) = ClusterSize) =>
        /\ C7_in_one_cell =>
              /\ Len(risk_zones) = 1
              /\ risk_zones[1].latitude = 350 /\ risk_zones[1].longitude = -1170
              /\ risk_zones[1].earthquake_count = ClusterSize
              /\ RLt(Rat(3, 10), risk_zones[1].risk_level)
              /\ ret = Returned(1)
        /\ ret = Returned(Len(risk_zones))
        /\ \A c \in SeqToSet(grid_cells) :
              IF Len(c.events) >= 3
              THEN \E z \in ZonesAt(risk_zones, c) :
                      /\ z.earthquake_count = Len(c.events)
                      /\ RLt(Rat(3, 10), z.risk_level)
                      /\ ZonesAt(risk_zones, c) = {z}
              ELSE ZonesAt(risk_zones, c) = {}
        /\ \A z \in SeqToSet(risk_zones) : \E c \in SeqToSet(grid_cells) : z \in ZonesAt(risk_zones, c)

\* a run on a cluster that lies within cell (34, -118) but not on one spot
C7_Witness ==
    /\ pc = "returned"
    /\ Len(fetched) = ClusterSize
    /\ C7_in_one_cell
    /\ \E i, j \in 1..Len(fetched) : fetched[i].latitude # fetched[j].latitude
    /\ Len(risk_zones) = 1

----------------------------------------------------------------------------
(* predict_next_earthquake_probability on drawn stores.                    *)

DEG_KM == 111            \* radius_deg = radius_km / 111.0
MIN_EVENTS == 5          \* if len(earthquakes) < 5
MONTH_DAYS == 30         \* (datetime.utcnow() - eq.timestamp).days <= 30
PERIOD_DAYS == 365       \* historical_frequency = len(earthquakes) / 365.0
MEDIUM_EVENTS == 20      \* elif len(earthquakes) > 20
HIGH_EVENTS == 50        \* if len(earthquakes) > 50

MaxStore == 6

\* func.abs(column - centre) <= radius_deg, in tenths of a degree; a NULL
\* column makes the comparison NULL and the row is not selected
within(x, centre, radius_km) ==
    /\ x # None
    /\ DEG_KM * Abs(x[1] - centre) <= 10 * radius_km

\* Earthquake.query.filter(...).all()
matching(table, latitude, longitude, radius_km) ==
    SelectSeq(table, LAMBDA eq : /\ within(eq.latitude, latitude, radius_km)
                                 /\ within(eq.longitude, longitude, radius_km))

\* round(probability, 3).  n/365 + k/10 is never half a thousandth away from
\* a thousandth (400 n = 73 (2 m + 1) has no solution), so no tie arises.
round3(r) == Rat((2000 * r[1] + r[2]) \div (2 * r[2]), 1000)

insufficient_below_four(found) == Len(found) < MIN_EVENTS - 1

\* if len(earthquakes) < 5
insufficient(found) == Len(found) < MIN_EVENTS

confidence_of(found) ==
    IF Len(found) > HIGH_EVENTS THEN "high"
    ELSE IF Len(found) > MEDIUM_EVENTS THEN "medium"
    ELSE "low"

\* the body of the try block
predict_next_earthquake_probability(latitude, longitude, radius_km, table, t) ==
    LET found == matching(table, latitude, longitude, radius_km)
        recent == SelectSeq(found, LAMBDA eq : Days(t - eq.timestamp) <= MONTH_DAYS)
        historical_frequency == Rat(Len(found), PERIOD_DAYS)
        recent_activity_boost == Rat(Len(recent), 10)
        probability == RMin(RAdd(historical_frequency, recent_activity_boost), One)
    IN  IF insufficient(found)
        THEN [probability |-> Rat(1, 10), confidence |-> "low",
              based_on_events |-> Len(found)]
        ELSE [probability |-> round3(probability), confidence |-> confidence_of(found),
              based_on_events |-> Len(found), recent_activity |-> Len(recent)]

\* except Exception as e: the query raised
predict_failed ==
    [probability |-> Zero, confidence |-> "unknown", error |-> "StoreFailure"]

\* rows near (34.0, -118.0) of today and of 35 days ago, a row two degrees
\* north, and a row without latitude
PredictRows(id) ==
    { Row(id, Some(340), Some(-1180), Some(30), Some(10), "", 0),
      Row(id, Some(340), Some(-1180), Some(30), Some(10), "", -70),
      Row(id, Some(360), Some(-1180), Some(30), Some(10), "", 0),
      Row(id, None, Some(-1180), Some(30), Some(10), "", 0) }

QueryLatitudes == {340, 350}
QueryRadii == {100, 150}

\* the store receives one more row
predict_place ==
    /\ result = None
    /\ Len(earthquakes) < MaxStore
    /\ \E eq \in PredictRows(ToString(Len(earthquakes) + 1)) : earthquakes' = Append(earthquakes, eq)
    /\ UNCHANGED <<request_vars, now, fetch_ret, fetch_stored, cell, result>>

\* predict_next_earthquake_probability(latitude, longitude, radius_km)
predict_call ==
    /\ result = None
    /\ \E latitude \in QueryLatitudes, radius_km \in QueryRadii, raised \in BOOLEAN :
          result' = Some([latitude |-> latitude, longitude |-> -1180,
                          radius_km |-> radius_km, raised |-> raised,
                          out |-> IF raised THEN predict_failed
                                  ELSE predict_next_earthquake_probability(
                                           latitude, -1180, radius_km, earthquakes, now)])
    /\ UNCHANGED <<request_vars, now, fetch_ret, fetch_stored, cell, earthquakes>>

NextPredict == predict_place \/ predict_call

SpecPredict == InitPure /\ [][NextPredict]_vars

\* the stored rows within the queried square, counted row by row
C11_matches ==
    {i \in 1..Len(earthquakes) :
        /\ earthquakes[i].latitude # None /\ earthquakes[i].longitude # None
        /\ DEG_KM * Abs(earthquakes[i].latitude[1] - result[1].latitude) <= 10 * result[1].radius_km
        /\ DEG_KM * Abs(earthquakes[i].longitude[1] - result[1].longitude) <= 10 * result[1].radius_km}

\* C11: a call whose query found fewer than 5 stored events returns
\* probability 0.1 and confidence "low", whatever the events' timestamps, the
\* point and the radius.
C11_FewEventsLowConfidence ==
    (result # None /\ ~result[1].raised /\ Cardinality(C11_matches) < 5) =>
        /\ result[1].out.probability = Rat(1, 10)
        /\ result[1].out.confidence = "low"

\* four matching events, of today and of 35 days ago, beside rows that do not match
C11_Witness ==
    /\ result # None
    /\ ~result[1].raised
    /\ Cardinality(C11_matches) = 4
    /\ Len(earthquakes) > 4
    /\ \E i, j \in C11_matches : earthquakes[i].timestamp # earthquakes[j].timestamp
    /\ result[1].out.probability = Rat(1, 10)
    /\ result[1].out.confidence = "low"

----------------------------------------------------------------------------
(* The grouping loop for any grid size, in the arithmetic of Python floats. *)
(*                                                                          *)
(* A coordinate or a grid size of t tenths is the double nearest to t/10,   *)
(* written d(t).  Every double the loop computes lies within a few units in *)
(* the last place (ulp) of some d(t) and is written <<t, j>>: the double j  *)
(* ulps above d(t).  With e the binary exponent of t/10,                    *)
(*     d(t) = (t + residue(t) * 2^(e-52)) / 10,                             *)
(* so that sums, products and quotients of such doubles are compared        *)
(* exactly with small integers.  floor_cell above is the same expression    *)
(* for a grid size that is a binary fraction (the default 2.0), where       *)
(* x / g and m * g are exact.                                               *)

\* e + 4, for e the binary exponent of |t| / 10 (0 < |t| <= 1800 tenths)
binade(t) == CHOOSE k \in 0..11 : 10 * 2^k <= 16 * Abs(t) /\ 16 * Abs(t) < 10 * 2^(k + 1)

\* 2^(52 - e) modulo 10 and modulo 20
pow2mod10(k) == <<6, 2, 4, 8>>[((56 - k) % 4) + 1]
pow2mod20(k) == <<16, 12, 4, 8>>[((56 - k) % 4) + 1]

\* 10 * mantissa(d(t)) - |t| * 2^(52 - e), with the sign of t: the rounding
\* of t/10 to 53 bits, in tenths of an ulp
residue(t) ==
    IF t = 0 THEN 0
    ELSE LET s == (Abs(t) * pow2mod10(binade(t))) % 10
             r == IF s < 5 THEN -s ELSE 10 - s
         IN  IF t > 0 THEN r ELSE -r

\* the mantissa of d(t) is odd
mantissa_odd(t) ==
    ((Abs(t) * pow2mod20(binade(t)) + residue(Abs(t))) % 20) \div 10 = 1

\* floor(log2(n)) for 1 <= n < 4096
ilog2(n) == CHOOSE e \in 0..11 : 2^e <= n /\ n < 2^(e + 1)

\* the double x = <<t, j>> less d(t)'s decimal, in units of 2^(-58) / 10
offset(x) == IF x[1] = 0 THEN 0 ELSE (residue(x[1]) + 10 * x[2]) * 2^(binade(x[1]) + 2)

\* math.floor(x / grid_size) for the double x = <<t, j>> and grid_size = d(g).
\* Off a multiple of g the quotient is far from an integer.  On one, m, the
\* exact quotient is m + delta with delta of a few ulps; the division rounds
\* it to m unless it lies below the midpoint of m and the double before m
\* (a tie goes to m, whose mantissa is even), and then the floor is m - 1.
float_floor_div(x, g) ==
    LET m == x[1] \div g
    IN  IF x[1] % g # 0 \/ x[1] = 0 THEN m
        ELSE LET E == ilog2(Abs(m))
                 half_gap == IF m > 0 /\ m = 2^E THEN g * 2^(E + 4) ELSE g * 2^(E + 5)
                 margin == offset(x) - m * offset(<<g, 0>>) + half_gap
             IN  IF margin < 0 \/ (margin = 0 /\ residue(g) < 0) THEN m - 1 ELSE m

\* m * grid_size for the integer m and grid_size = d(g): the exact product
\* rounded to the nearest double, a tie to the even mantissa
float_times(m, g) ==
    LET t == m * g
    IN  IF t = 0 THEN <<0, 0>>
        ELSE LET s == binade(t) - binade(g)
                 n == m * residue(g) - residue(t) * 2^s
                 d == 10 * 2^s
                 lo == n \div d
                 twice == 2 * (n - lo * d)
                 j == IF twice < d THEN lo
                      ELSE IF twice > d THEN lo + 1
                      ELSE IF mantissa_odd(t) = (lo % 2 = 1) THEN lo ELSE lo + 1
             IN  <<t, j>>

\* math.floor(x / grid_size) * grid_size
float_floor_cell(x, g) == float_times(float_floor_div(x, g), g)

\* cell_key = (lat_cell, lon_cell)
float_cell_key(eq, g) ==
    <<float_floor_cell(<<eq.latitude[1], 0>>, g), float_floor_cell(<<eq.longitude[1], 0>>, g)>>

\* grid_cells after the grouping loop, as the dict's items() in insertion order
RECURSIVE float_group_cells(_, _)
float_group_cells(eqs, g) ==
    IF eqs = <<>> THEN <<>>
    ELSE LET before == float_group_cells(SubSeq(eqs, 1, Len(eqs) - 1), g)
             eq == eqs[Len(eqs)]
             k == float_cell_key(eq, g)
         IN  IF \E i \in 1..Len(before) : before[i].key = k
             THEN [i \in 1..Len(before) |->
                      IF before[i].key = k
                      THEN [key |-> k, events |-> Append(before[i].events, eq)]
                      ELSE before[i]]
             ELSE Append(before, [key |-> k, events |-> <<eq>>])

MaxGridEvents == 2

\* 0.1, 0.5, the default 2.0, and 2.5 degrees
GridSizes == {1, 5, GRID_SIZE, 25}

\* on and off the boundaries of these grids, on both sides of zero
GridLatitudes == {-898, -3, 0, 3, 17, 340}
GridLongitudes == {-1180, 25}

\* one more event enters the list
grid_draw ==
    /\ result = None
    /\ Len(cell) < MaxGridEvents
    /\ \E lat \in GridLatitudes, lon \in GridLongitudes :
          cell' = Append(cell, Row(ToString(Len(cell) + 1), Some(lat), Some(lon),
                                   Some(30), Some(10), "", 0))
    /\ UNCHANGED <<result, main_vars>>

\* the grouping loop of update_risk_zones(grid_size)
grid_call ==
    /\ result = None
    /\ cell # <<>>
    /\ \E g \in GridSizes :
          result' = Some([grid_size |-> g, grid_cells |-> float_group_cells(cell, g)])
    /\ UNCHANGED <<cell, main_vars>>

NextGrid == grid_draw \/ grid_call

SpecGrid == InitPure /\ [][NextGrid]_vars

\* key <= x, for the doubles key and x
C13_le(key, x) ==
    key[1] < x[1] \/ (key[1] = x[1] /\ offset(key) <= offset(x))

\* x < key + g as real numbers, for the doubles x, key and d(g)
C13_below(x, key, g) ==
    \/ x[1] < key[1] + g
    \/ x[1] = key[1] + g /\ offset(x) < offset(key) + offset(<<g, 0>>)

C13_in_cell(x, key, g) == C13_le(key, x) /\ C13_below(x, key, g)

C13_sizes(cells) == SumSeq([i \in 1..Len(cells) |-> Len(cells[i].events)])

\* C13 (as claimed): for every grid size, every event is in exactly one cell,
\* lat_cell <= lat < lat_cell + g and lon_cell <= lon < lon_cell + g hold for
\* it, flooring a cell key by g again returns the key, and the cell sizes
\* sum to the number of events.
C13_PartitionByFloor ==
    result # None =>
        LET g == result[1].grid_size
            cells == result[1].grid_cells
        IN  /\ \A i \in 1..Len(cell) :
                  Cardinality({c \in 1..Len(cells) : cell[i] \in SeqToSet(cells[c].events)}) = 1
            /\ \A c \in 1..Len(cells) :
                  /\ \A eq \in SeqToSet(cells[c].events) :
                        /\ C13_in_cell(<<eq.latitude[1], 0>>, cells[c].key[1], g)
                        /\ C13_in_cell(<<eq.longitude[1], 0>>, cells[c].key[2], g)
                  /\ float_floor_cell(cells[c].key[1], g) = cells[c].key[1]
                  /\ float_floor_cell(cells[c].key[2], g) = cells[c].key[2]
            /\ C13_sizes(cells) = Len(cell)

====
